---------------------------- MODULE Spec2Model ----------------------------
(***************************************************************************)
(* A model of the CTP driver: the market-data publisher                   *)
(* (ctpDataPublisher.py), the execution engine (ctpExecutionEngine.py)    *)
(* and the identifier/order conversions they share (ctpUtil.py).          *)
(*                                                                         *)
(* Strings are modelled as sequences of one-character strings, so that    *)
(* split, upper, lower and startswith are computed as Python computes     *)
(* them.  The timestamp and the price of a raw tick are single lexemes:   *)
(* strptime and float either accept a lexeme or raise.                    *)
(***************************************************************************)
EXTENDS Integers, Sequences, FiniteSets, TLC

\* ------------------------------------------------------------------ bounds

\* Largest subscriber id addSubscriber may hand out in a run.
MaxSubId == 3

\* Number of placeOrder calls in a run.
MaxCalls == 3

\* Number of _onOrderReturn events the transport delivers in a run.
MaxReturns == 3

\* Largest price of an order handed to convertToCtpOrder on its own.
MaxPrice == 103

\* ------------------------------------------------------------- Python values

\* Python's None, where an integer is expected (ids start at 1).
NoneId == 0

\* Python's None, where a subscriber object is expected.
NoneSub == "None"

\* The empty dict.
EmptyDict == [k \in {} |-> {}]

\* ------------------------------------------------------------------ strings

\* str.upper on one character.
Upper(c) ==
  CASE c = "a" -> "A"
    [] c = "b" -> "B"
    [] c = "c" -> "C"
    [] OTHER -> c

\* str.lower on one character.
Lower(c) ==
  CASE c = "A" -> "a"
    [] c = "B" -> "b"
    [] c = "C" -> "c"
    [] c = "X" -> "x"
    [] c = "Z" -> "z"
    [] c = "E" -> "e"
    [] c = "S" -> "s"
    [] c = "H" -> "h"
    [] c = "G" -> "g"
    [] c = "F" -> "f"
    [] OTHER -> c

UpperStr(s) == [i \in 1..Len(s) |-> Upper(s[i])]

LowerStr(s) == [i \in 1..Len(s) |-> Lower(s[i])]

\* str.startswith
StartsWith(s, p) == Len(s) >= Len(p) /\ SubSeq(s, 1, Len(p)) = p

\* str.split( d ) for a one-character delimiter d: the list of fields.
RECURSIVE Split(_, _)
Split(s, d) ==
  IF \E i \in 1..Len(s) : s[i] = d
  THEN LET i == CHOOSE k \in 1..Len(s) :
                  s[k] = d /\ \A j \in 1..(k - 1) : s[j] # d
       IN  <<SubSeq(s, 1, i - 1)>> \o Split(SubSeq(s, i + 1, Len(s)), d)
  ELSE <<s>>

\* ------------------------------------------------------------------ ctpUtil

\* getCtpInstId raises ValueError unless the id has exactly one '.'.
GetCtpInstIdRaises(secId) == Len(Split(secId, ".")) # 2

\* getCtpInstId: upper case for XZCE and CCFX, lower case otherwise.
getCtpInstId(secId) ==
  LET parts  == Split(secId, ".")
      instId == parts[1]
      exch   == parts[2]
  IN  IF StartsWith(exch, <<"X", "Z", "C", "E">>)
         \/ StartsWith(exch, <<"C", "C", "F", "X">>)
      THEN UpperStr(instId)
      ELSE LowerStr(instId)

\* --------------------------------------------------------------- subscribers

\* External security identifiers used as topics.
SecA  == <<"a", ".", "X", "Z", "C", "E">>
SecB  == <<"b", ".", "X", "S", "H", "G">>
SecB2 == <<"B", ".", "X", "S", "H", "G">>

Topics == {SecA, SecB, SecB2}

\* The subscriber objects a client may hand to the publisher.
Subscribers == {"sA", "sB", "sC"}

\* Subscriber.getSubscribedTopics(): fixed for the object's lifetime.
getSubscribedTopics(s) ==
  CASE s = "sA" -> {SecA}
    [] s = "sB" -> {SecB}
    [] s = "sC" -> {SecA, SecB2}

\* Subscriber.getSubscribedDataFields(): a set of field names, or None.
getSubscribedDataFields(s) ==
  CASE s = "sA" -> [none |-> FALSE, val |-> {"price"}]
    [] s = "sB" -> [none |-> TRUE,  val |-> {}]
    [] s = "sC" -> [none |-> FALSE, val |-> {}]

\* ------------------------------------------------------------------- state

VARIABLES
  subscribers,          \* CTPDataPublisher.subscribers: id -> subscriber
  topicsToSubscribers,  \* CTPDataPublisher.topicsToSubscribers: topic -> set
  secIds,               \* CTPDataPublisher.secIds: native id -> external id
  nextId,               \* CTPDataPublisher.nextId
  receiver,             \* the receive thread: "STOPPED", "CREATED", "LISTENING"
  lastCall,             \* the last publisher call: arguments, result, onData calls
  executedOrders,       \* CTPExecutionEngine.executedOrders
  engineNextId,         \* CTPExecutionEngine.nextId
  caller,               \* each placeOrder caller: its position and locals
  submitted,            \* what ctptrader.placeOrder has been handed, in order
  returned,             \* how each placeOrder call ended, in order
  orderReturns,         \* the _onOrderReturn events delivered, in order
  issuedIds,            \* the ids addSubscriber has returned, in order
  callbacks,            \* the engine's user callbacks: which are not None
  engineCall,           \* the last engine call or event: arguments, result
  mutator,              \* a thread inside addSubscriber or removeSubscriber
  dispatcher,           \* the thread inside notifyAll: its position and locals
  closed                \* the receive thread's socket has been closed under it

\* The threads that run the publisher's methods statement by statement, and
\* the state of the socket the receive thread blocks on.
threadVars == <<mutator, dispatcher, closed>>

publisherVars ==
  <<subscribers, topicsToSubscribers, secIds, nextId, receiver, lastCall,
    issuedIds, threadVars>>

\* What the calls and events other than placeOrder and _onOrderReturn touch.
engineIoVars == <<callbacks, engineCall>>

engineVars ==
  <<executedOrders, engineNextId, caller, submitted, returned, orderReturns,
    engineIoVars>>

vars == <<publisherVars, engineVars>>

\* dict.get( key, default )
DictGet(d, k, default) == IF k \in DOMAIN d THEN d[k] ELSE default

\* dict[ key ] = value
DictSet(d, k, v) == [x \in DOMAIN d \cup {k} |-> IF x = k THEN v ELSE d[x]]

\* dict.pop( key )
DictPop(d, k) == [x \in DOMAIN d \ {k} |-> d[x]]

\* The reverse-index lookup notifyAll performs for one key.
subscribersFor(t) == DictGet(topicsToSubscribers, t, {})

NoCall == [op |-> "none"]

\* The threads that call placeOrder.
Callers == {"t1", "t2"}

\* A caller outside placeOrder.
Idle == [pc |-> "idle"]

\* The five user callbacks of the engine.
CallbackNames ==
  {"onRspUserLogin", "onOrderSubmitted", "onOrderActionTaken",
   "onOrderReturn", "onTradeReturn"}

\* The callbacks after __init__: all None.
NoCallbacks == [c \in CallbackNames |-> FALSE]

InitObjects ==
  /\ subscribers = [k \in {} |-> NoneSub]
  /\ topicsToSubscribers = EmptyDict
  /\ secIds = [k \in {} |-> <<>>]
  /\ nextId = 1
  /\ receiver = "STOPPED"
  /\ lastCall = NoCall
  /\ executedOrders = [k \in {} |-> NoCall]
  /\ engineNextId = 1
  /\ caller = [t \in Callers |-> Idle]
  /\ submitted = <<>>
  /\ returned = <<>>
  /\ orderReturns = <<>>
  /\ issuedIds = <<>>
  /\ callbacks = NoCallbacks
  /\ mutator = Idle
  /\ dispatcher = Idle
  /\ closed = FALSE

Init ==
  /\ InitObjects
  /\ engineCall = NoCall

\* ------------------------------------------------------------ addSubscriber

\* IndexAdd with the subscriber added to the set of every topic of the index,
\* not only of its own topics.
IndexAddEveryTopic(index, s) ==
  [t \in DOMAIN index \cup getSubscribedTopics(s) |->
     DictGet(index, t, {}) \cup {s}]

\* The loop of addSubscriber over the subscribed topics: each topic's set is
\* created when absent and the subscriber object is added to it.
IndexAdd(index, s) ==
  [t \in DOMAIN index \cup getSubscribedTopics(s) |->
     IF t \in getSubscribedTopics(s)
     THEN DictGet(index, t, {}) \cup {s}
     ELSE index[t]]

\* NewSubId taken from the size of the subscriber dict, not from the counter.
NewSubIdFromSize == Cardinality(DOMAIN subscribers) + 1

\* subId = self.nextId
NewSubId == nextId

\* addSubscriber taking an identifier from the counter before it looks at its
\* argument.
addSubscriberCountsNone(s) ==
  /\ nextId <= MaxSubId
  /\ nextId' = nextId + 1
  /\ IF s # NoneSub
     THEN /\ subscribers' = DictSet(subscribers, nextId, s)
          /\ topicsToSubscribers' = IndexAdd(topicsToSubscribers, s)
          /\ lastCall' = [op |-> "addSubscriber", sub |-> s, ret |-> nextId,
                          raised |-> FALSE]
          /\ issuedIds' = Append(issuedIds, nextId)
     ELSE /\ UNCHANGED <<subscribers, topicsToSubscribers, issuedIds>>
          /\ lastCall' = [op |-> "addSubscriber", sub |-> s, ret |-> NoneId,
                          raised |-> FALSE]
  /\ UNCHANGED <<secIds, receiver, threadVars, engineVars>>

addSubscriber(s) ==
  /\ nextId <= MaxSubId
  /\ IF s # NoneSub
     THEN /\ nextId' = nextId + 1
          /\ subscribers' = DictSet(subscribers, NewSubId, s)
          /\ topicsToSubscribers' = IndexAdd(topicsToSubscribers, s)
          /\ lastCall' = [op |-> "addSubscriber", sub |-> s, ret |-> NewSubId,
                          raised |-> FALSE]
          /\ issuedIds' = Append(issuedIds, NewSubId)
     ELSE /\ UNCHANGED <<nextId, subscribers, topicsToSubscribers, issuedIds>>
          /\ lastCall' = [op |-> "addSubscriber", sub |-> s, ret |-> NoneId,
                          raised |-> FALSE]
  /\ UNCHANGED <<secIds, receiver, threadVars, engineVars>>

\* --------------------------------------------------------- removeSubscriber

\* IndexRemove that leaves the loop after its first topic.
IndexRemoveFirstTopic(index, s) ==
  LET first == CHOOSE t \in getSubscribedTopics(s) : TRUE
  IN  [t \in DOMAIN index |-> IF t = first THEN index[t] \ {s} ELSE index[t]]

\* The loop of removeSubscriber over the subscribed topics: the subscriber
\* object is taken out of each topic's set.
IndexRemove(index, s) ==
  [t \in DOMAIN index |->
     IF t \in getSubscribedTopics(s) THEN index[t] \ {s} ELSE index[t]]

\* RemoveRaises without the membership test.
RemoveNeverRaises(subscriberId) == FALSE

\* if subscriberId not in self.subscribers: raise Exception( ... )
RemoveRaises(subscriberId) == subscriberId \notin DOMAIN subscribers

removeSubscriber(subscriberId) ==
  IF RemoveRaises(subscriberId)
  THEN /\ lastCall' = [op |-> "removeSubscriber", id |-> subscriberId,
                       raised |-> TRUE, ret |-> NoneSub]
       /\ UNCHANGED <<subscribers, topicsToSubscribers, secIds, nextId,
                       receiver, issuedIds, threadVars, engineVars>>
  ELSE LET subscriber == DictGet(subscribers, subscriberId, NoneSub)
       IN  /\ subscribers' = DictPop(subscribers, subscriberId)
           /\ topicsToSubscribers' =
                IF subscriber # NoneSub
                THEN IndexRemove(topicsToSubscribers, subscriber)
                ELSE topicsToSubscribers
           /\ lastCall' = [op |-> "removeSubscriber", id |-> subscriberId,
                           raised |-> FALSE, ret |-> subscriber]
           /\ UNCHANGED <<secIds, nextId, receiver, issuedIds, threadVars,
                          engineVars>>

\* ---------------------------------------------------------------- notifyAll

\* The subscribers notifyAll collects: the union of the index sets of the
\* keys of the batch.
Recipients(keys) == UNION {subscribersFor(k) : k \in keys}

\* The number of onData( data ) calls notifyAll makes on each subscriber
\* object: one per member of the collected set.
OnDataCalls(keys) ==
  [s \in Subscribers |-> IF s \in Recipients(keys) THEN 1 ELSE 0]

notifyAll(keys) ==
  /\ lastCall' = [op |-> "notifyAll", keys |-> keys, calls |-> OnDataCalls(keys)]
  /\ UNCHANGED <<subscribers, topicsToSubscribers, secIds, nextId, receiver,
                 issuedIds, threadVars, engineVars>>

\* ------------------------------------------------------------------ connect

\* dict( ( ctpUtil.getCtpInstId( tt ), tt ) for tt in t ) for one subscriber.
\* No modelled subscriber has two topics with the same native id, so the
\* order in which the topics are visited does not matter.
CtpTopics(s) ==
  LET t == getSubscribedTopics(s)
  IN  [n \in {getCtpInstId(tt) : tt \in t} |->
         CHOOSE tt \in t : getCtpInstId(tt) = n]

\* dict.update
DictUpdate(d, e) ==
  [k \in DOMAIN d \cup DOMAIN e |-> IF k \in DOMAIN e THEN e[k] ELSE d[k]]

\* FieldsStep that tests only f, and starts a new set after "all fields".
FieldsStepForgets(fields, f) ==
  IF ~f.none
  THEN [none |-> FALSE, val |-> fields.val \cup f.val]
  ELSE [none |-> TRUE, val |-> {}]

\* One pass of connect's loop body on the running field set.
FieldsStep(fields, f) ==
  IF ~(f.none \/ fields.none)
  THEN [none |-> FALSE, val |-> fields.val \cup f.val]
  ELSE [none |-> TRUE, val |-> {}]

\* connect's loop over self.subscribers.items(), in the dict's order (the
\* order of insertion, which is the order of the ids): the pair of the
\* updated secIds and the aggregated fields.
RECURSIVE ConnectLoop(_, _, _)
ConnectLoop(ids, sec, fields) ==
  IF ids = {}
  THEN [secIds |-> sec, fields |-> fields]
  ELSE LET id == CHOOSE i \in ids : \A j \in ids : i <= j
           s  == subscribers[id]
       IN  ConnectLoop(ids \ {id},
                       DictUpdate(sec, CtpTopics(s)),
                       FieldsStep(fields, getSubscribedDataFields(s)))

\* connect() returns the receive thread, not yet started.
connect ==
  LET r == ConnectLoop(DOMAIN subscribers, secIds, [none |-> FALSE, val |-> {}])
  IN  /\ secIds' = r.secIds
      /\ receiver' = IF receiver = "STOPPED" THEN "CREATED" ELSE receiver
      /\ lastCall' = [op |-> "connect", fields |-> r.fields,
                      topics |-> DOMAIN r.secIds]
      /\ UNCHANGED <<subscribers, topicsToSubscribers, nextId, issuedIds,
                     threadVars, engineVars>>

\* ----------------------------------------------------------- receiveDatafeed

\* Lexemes of a raw tick.
GoodTime  == "20190101 09:00:00"
BadTime   == "2019-01-01"
GoodPrice == "3500.0"

\* Raw messages the transport may deliver.
RawA    == <<"A", ",", GoodTime, ",", GoodPrice>>
RawB    == <<"b", ",", GoodTime, ",", GoodPrice>>
RawBad  == <<"b", "a", "d", ",", "d", "a", "t", "a">>
RawLong == <<"A", ",", GoodTime, ",", GoodPrice, ",", "x">>
RawTime == <<"A", ",", BadTime, ",", GoodPrice>>

RawMessages == {RawA, RawB, RawBad, RawLong, RawTime}

\* datetime.strptime( f, '%Y%m%d %H:%M:%S' ) raises ValueError on f.
StrptimeRaises(f) == f # <<GoodTime>>

\* float( f ) raises ValueError on f.
FloatRaises(f) == f # <<GoodPrice>>

\* The caller starts the thread connect returned: receiveDatafeed sets up its
\* socket and enters the loop.
startReceiver ==
  /\ receiver = "CREATED"
  /\ receiver' = "LISTENING"
  /\ lastCall' = [op |-> "start"]
  /\ closed' = FALSE
  /\ UNCHANGED <<subscribers, topicsToSubscribers, secIds, nextId, issuedIds,
                 mutator, dispatcher, engineVars>>

\* The three-name unpacking of raw.split( ',' ) raises ValueError unless
\* there are exactly three fields.
UnpackRaises(raw) == Len(Split(raw, ",")) # 3

\* One iteration of the receive loop on the raw message `raw`.  An exception
\* is caught nowhere: it ends the thread.
receiveDatafeed(raw) ==
  /\ receiver = "LISTENING"
  /\ UNCHANGED <<subscribers, topicsToSubscribers, secIds, nextId, issuedIds,
                 threadVars, engineVars>>
  /\ IF UnpackRaises(raw)
     THEN /\ receiver' = "STOPPED"
          /\ lastCall' = [op |-> "receive", raw |-> raw, raised |-> TRUE,
                          keys |-> {}, calls |-> [s \in Subscribers |-> 0]]
     ELSE LET parts  == Split(raw, ",")
              instId == parts[1]
              key    == DictGet(secIds, instId, instId)
          IN  IF StrptimeRaises(parts[2]) \/ FloatRaises(parts[3])
              THEN /\ receiver' = "STOPPED"
                   /\ lastCall' = [op |-> "receive", raw |-> raw,
                                   raised |-> TRUE, keys |-> {},
                                   calls |-> [s \in Subscribers |-> 0]]
              ELSE /\ receiver' = receiver
                   /\ lastCall' = [op |-> "receive", raw |-> raw,
                                   raised |-> FALSE, keys |-> {key},
                                   calls |-> OnDataCalls({key})]

\* ------------------------------- addSubscriber, statement by statement

\* addSubscriber( s ) up to self.subscribers[ subId ] = subscriber.  notifyAll
\* reads neither nextId nor self.subscribers, so the three statements are one
\* step.
addEnter(s) ==
  /\ mutator = Idle
  /\ nextId <= MaxSubId
  /\ s # NoneSub
  /\ nextId' = nextId + 1
  /\ subscribers' = DictSet(subscribers, NewSubId, s)
  /\ mutator' = [pc |-> "add", sub |-> s, id |-> NewSubId,
                 todo |-> getSubscribedTopics(s)]
  /\ UNCHANGED <<topicsToSubscribers, secIds, receiver, lastCall, issuedIds,
                 dispatcher, closed, engineVars>>

\* One pass of the loop over subscribedTopics: the topic gets a set if it
\* has none, and the subscriber is added to it.
addTopic(t) ==
  /\ mutator.pc = "add"
  /\ t \in mutator.todo
  /\ topicsToSubscribers' =
       DictSet(topicsToSubscribers, t, subscribersFor(t) \cup {mutator.sub})
  /\ mutator' = [mutator EXCEPT !.todo = @ \ {t}]
  /\ UNCHANGED <<subscribers, secIds, nextId, receiver, lastCall, issuedIds,
                 dispatcher, closed, engineVars>>

\* return subId
addReturn ==
  /\ mutator.pc = "add"
  /\ mutator.todo = {}
  /\ issuedIds' = Append(issuedIds, mutator.id)
  /\ mutator' = Idle
  /\ UNCHANGED <<subscribers, topicsToSubscribers, secIds, nextId, receiver,
                 lastCall, dispatcher, closed, engineVars>>

\* ---------------------------- removeSubscriber, statement by statement

\* removeSubscriber( subscriberId ) up to self.subscribers.pop( ... ), for an
\* id that is in the dict.
removeEnter(subscriberId) ==
  /\ mutator = Idle
  /\ ~RemoveRaises(subscriberId)
  /\ subscribers' = DictPop(subscribers, subscriberId)
  /\ mutator' = [pc |-> "remove", sub |-> subscribers[subscriberId],
                 id |-> subscriberId,
                 todo |-> getSubscribedTopics(subscribers[subscriberId])]
  /\ UNCHANGED <<topicsToSubscribers, secIds, nextId, receiver, lastCall,
                 issuedIds, dispatcher, closed, engineVars>>

\* One pass of the loop: self.topicsToSubscribers[ topic ] -= { subscriber, }
removeTopic(t) ==
  /\ mutator.pc = "remove"
  /\ t \in mutator.todo
  /\ topicsToSubscribers' =
       [topicsToSubscribers EXCEPT ![t] = @ \ {mutator.sub}]
  /\ mutator' = [mutator EXCEPT !.todo = @ \ {t}]
  /\ UNCHANGED <<subscribers, secIds, nextId, receiver, lastCall, issuedIds,
                 dispatcher, closed, engineVars>>

\* return subscriber
removeReturn ==
  /\ mutator.pc = "remove"
  /\ mutator.todo = {}
  /\ mutator' = Idle
  /\ UNCHANGED <<subscribers, topicsToSubscribers, secIds, nextId, receiver,
                 lastCall, issuedIds, dispatcher, closed, engineVars>>

\* ----------------------------------- notifyAll, statement by statement

\* The dispatcher is outside notifyAll.
Outside == dispatcher.pc \in {"idle", "done"}

\* The locals of notifyAll( data ) once `keys` have been taken from the index
\* of data and `subs` collected from them: the loop over the collected set
\* starts when no key is left.
Collecting(keys, todo, seen, stale, subs) ==
  [pc |-> IF todo = {} THEN "deliver" ELSE "collect",
   keys |-> keys, todo |-> todo, seen |-> seen, stale |-> stale, subs |-> subs,
   pending |-> IF todo = {} THEN subs ELSE {},
   calls |-> [s \in Subscribers |-> 0]]

\* secIds = set( data.index ); subscribers = set()
notifyEnter(keys) ==
  /\ Outside
  /\ dispatcher' = Collecting(keys, keys, [k \in {} |-> {}], {}, {})
  /\ UNCHANGED <<subscribers, topicsToSubscribers, secIds, nextId, receiver,
                 lastCall, issuedIds, mutator, closed, engineVars>>

\* The keys a dispatch may hold: external ids, and native ids that secIds
\* does not translate.
CollectKeys == Topics \cup {Split(raw, ",")[1] : raw \in RawMessages}

\* One pass of the loop over secIds: the index set of the key is read and
\* united into the collected set.  `seen` keeps what was read under each key
\* and `stale` the subscribers read that were in no entry of
\* self.subscribers at that moment.
notifyCollect(k) ==
  /\ dispatcher.pc = "collect"
  /\ k \in dispatcher.todo
  /\ LET read == subscribersFor(k)
     IN  dispatcher' =
           Collecting(dispatcher.keys, dispatcher.todo \ {k},
                      DictSet(dispatcher.seen, k, read),
                      dispatcher.stale \cup
                        {s \in read : \A id \in DOMAIN subscribers :
                                        subscribers[id] # s},
                      dispatcher.subs \cup read)
  /\ UNCHANGED <<subscribers, topicsToSubscribers, secIds, nextId, receiver,
                 lastCall, issuedIds, mutator, closed, engineVars>>

\* One pass of the loop over the collected set: s.onData( data )
notifyDeliver(s) ==
  /\ dispatcher.pc = "deliver"
  /\ s \in dispatcher.pending
  /\ dispatcher' = [dispatcher EXCEPT !.pending = @ \ {s},
                                      !.calls[s] = @ + 1]
  /\ UNCHANGED <<subscribers, topicsToSubscribers, secIds, nextId, receiver,
                 lastCall, issuedIds, mutator, closed, engineVars>>

\* notifyAll returns: its locals stay on record until the next call.
notifyReturn ==
  /\ dispatcher.pc = "deliver"
  /\ dispatcher.pending = {}
  /\ dispatcher' = [dispatcher EXCEPT !.pc = "done"]
  /\ UNCHANGED <<subscribers, topicsToSubscribers, secIds, nextId, receiver,
                 lastCall, issuedIds, mutator, closed, engineVars>>

\* ------------------------------ receiveDatafeed, statement by statement

\* What sock.recv() hands the loop once the socket has been closed under it:
\* an empty message.
RawTerminal == <<>>

\* The socket of the listening receive thread is closed from outside.
closeTransport ==
  /\ receiver = "LISTENING"
  /\ ~closed
  /\ closed' = TRUE
  /\ lastCall' = [op |-> "close", during |-> dispatcher.pc]
  /\ UNCHANGED <<subscribers, topicsToSubscribers, secIds, nextId, receiver,
                 issuedIds, mutator, dispatcher, engineVars>>

\* ReceiveRaises for a loop that swallows every exception.
ReceiveNeverRaises(raw) == FALSE

\* The statements between sock.recv() and self.notifyAll( df ) raise on raw:
\* the unpacking, strptime or float.
ReceiveRaises(raw) ==
  \/ UnpackRaises(raw)
  \/ StrptimeRaises(Split(raw, ",")[2])
  \/ FloatRaises(Split(raw, ",")[3])

\* One pass of the loop from sock.recv() to the call of notifyAll.  No
\* exception is caught: one ends the thread.
receiveStep(raw) ==
  /\ receiver = "LISTENING"
  /\ Outside
  /\ closed <=> raw = RawTerminal
  /\ IF ReceiveRaises(raw)
     THEN /\ receiver' = "STOPPED"
          /\ UNCHANGED dispatcher
     ELSE LET instId == Split(raw, ",")[1]
              key    == DictGet(secIds, instId, instId)
          IN  /\ receiver' = receiver
              /\ dispatcher' = Collecting({key}, {key}, [k \in {} |-> {}], {}, {})
  /\ UNCHANGED <<subscribers, topicsToSubscribers, secIds, nextId, lastCall,
                 issuedIds, mutator, closed, engineVars>>

\* ----------------------------------------------------------------- ctpOrder

OFFSET_OPEN == 48
OFFSET_CLOSE == 49
OFFSET_CLOSE_TODAY == 51
DIRECTION_BUY == 48
DIRECTION_SELL == 49
PRICE_LIMIT_PRICE == 50

\* ------------------------------------------------------- convertToCtpOrder

\* getCtpExch: the second character of the exchange part, or ''.
getCtpExch(secId) ==
  LET secIdCmp == Split(secId, ".")[2]
  IN  IF Len(secIdCmp) > 1 THEN <<secIdCmp[2]>> ELSE <<>>

\* convertToCtpOrder raises where getCtpInstId, its first call, raises.
ConvertRaises(order) == GetCtpInstIdRaises(order.secId)

\* MarketablePrice without the floor of 1 on the sell side.
MarketablePriceNoFloor(side, price) ==
  IF side = DIRECTION_BUY THEN price + 100 ELSE price - 100

\* The limit price that stands in for a market order:
\* price + 100 for a buy, max( 1, price - 100 ) for a sell.
MarketablePrice(side, price) ==
  IF side = DIRECTION_BUY
  THEN price + 100
  ELSE IF price - 100 > 1 THEN price - 100 ELSE 1

convertToCtpOrder(order) ==
  LET side  == IF order.side = "BUY" THEN DIRECTION_BUY ELSE DIRECTION_SELL
      price == IF order.priceType = "MARKET_ORDER"
               THEN MarketablePrice(side, order.price)
               ELSE order.price
      offset == CASE order.offset = "CLOSE" -> OFFSET_CLOSE
                  [] order.offset = "CLOSE_TODAY" -> OFFSET_CLOSE_TODAY
                  [] OTHER -> OFFSET_OPEN
  IN  [instId     |-> getCtpInstId(order.secId),
       exch       |-> getCtpExch(order.secId),
       side       |-> side,
       volume     |-> order.volume,
       priceType  |-> PRICE_LIMIT_PRICE,
       price      |-> price,
       offsetFlag |-> offset]

\* A security identifier without the '.' delimiter.
SecNoDot == <<"c">>

\* The orders a caller may place.
Orders ==
  { [secId |-> SecA, side |-> "BUY", volume |-> 1, price |-> 100,
     priceType |-> "MARKET_ORDER", offset |-> "OPEN"],
    [secId |-> SecB, side |-> "SELL", volume |-> 2, price |-> 50,
     priceType |-> "LIMIT_ORDER", offset |-> "CLOSE"],
    [secId |-> SecNoDot, side |-> "BUY", volume |-> 1, price |-> 100,
     priceType |-> "LIMIT_ORDER", offset |-> "OPEN"] }

\* The orders convertToCtpOrder is applied to on its own.
ConvertInputs ==
  [secId : {SecA, SecB, SecNoDot}, side : {"BUY", "SELL"}, volume : {1},
   price : 0..MaxPrice, priceType : {"MARKET_ORDER", "LIMIT_ORDER"},
   offset : {"OPEN", "CLOSE", "CLOSE_TODAY"}]

\* convertToCtpOrder applied to the order waiting as its argument.
convert ==
  /\ engineCall.op = "argument"
  /\ engineCall' =
       LET order == engineCall.order
       IN  IF ConvertRaises(order)
           THEN [op |-> "convertToCtpOrder", order |-> order, raised |-> TRUE]
           ELSE [op |-> "convertToCtpOrder", order |-> order, raised |-> FALSE,
                 ret |-> convertToCtpOrder(order)]
  /\ UNCHANGED <<executedOrders, engineNextId, caller, submitted, returned,
                 orderReturns, callbacks, publisherVars>>

\* --------------------------------------------------------------- placeOrder

\* The calls begun so far: those that ended and those under way.
CallsBegun ==
  Len(returned) + Cardinality({t \in Callers : caller[t].pc # "idle"})

\* orderId = self.nextId
placeOrderRead(t, order) ==
  /\ caller[t].pc = "idle"
  /\ CallsBegun < MaxCalls
  /\ caller' = [caller EXCEPT ![t] =
                  [pc |-> "load", order |-> order, orderId |-> engineNextId]]
  /\ UNCHANGED <<executedOrders, engineNextId, submitted, returned,
                 orderReturns, engineIoVars, publisherVars>>

\* self.nextId += 1, its read of the attribute
placeOrderLoad(t) ==
  /\ caller[t].pc = "load"
  /\ caller' = [caller EXCEPT ![t] =
                  [pc |-> "store", order |-> caller[t].order,
                   orderId |-> caller[t].orderId, loaded |-> engineNextId]]
  /\ UNCHANGED <<executedOrders, engineNextId, submitted, returned,
                 orderReturns, engineIoVars, publisherVars>>

\* placeOrderStore that keeps the counter when the order will be rejected.
placeOrderStoreUnlessRejected(t) ==
  /\ caller[t].pc = "store"
  /\ engineNextId' = IF ConvertRaises(caller[t].order)
                     THEN engineNextId
                     ELSE caller[t].loaded + 1
  /\ caller' = [caller EXCEPT ![t] =
                  [pc |-> "submit", order |-> caller[t].order,
                   orderId |-> caller[t].orderId]]
  /\ UNCHANGED <<executedOrders, submitted, returned, orderReturns,
                 engineIoVars, publisherVars>>

\* self.nextId += 1, its write of the attribute
placeOrderStore(t) ==
  /\ caller[t].pc = "store"
  /\ engineNextId' = caller[t].loaded + 1
  /\ caller' = [caller EXCEPT ![t] =
                  [pc |-> "submit", order |-> caller[t].order,
                   orderId |-> caller[t].orderId]]
  /\ UNCHANGED <<executedOrders, submitted, returned, orderReturns,
                 engineIoVars, publisherVars>>

\* RequestId read from the counter after its increment, not from the local.
RequestIdFromCounter(t) == engineNextId

\* The correlation id handed to ctptrader.placeOrder with the native order.
RequestId(t) == caller[t].orderId

\* The conversion, the submission and the return of the CTPOrderId; the
\* conversion's exception leaves placeOrder before anything is submitted.
placeOrderSubmit(t) ==
  /\ caller[t].pc = "submit"
  /\ LET order == caller[t].order
     IN  IF ConvertRaises(order)
         THEN /\ returned' = Append(returned, [caller |-> t, raised |-> TRUE])
              /\ UNCHANGED submitted
         ELSE LET ctpOrderObj == convertToCtpOrder(order)
              IN  /\ submitted' = Append(submitted,
                        [order |-> ctpOrderObj, requestId |-> RequestId(t)])
                  /\ returned' = Append(returned,
                        [caller |-> t, raised |-> FALSE,
                         orderId |-> [instId   |-> order.secId,
                                      exchange |-> ctpOrderObj.exch,
                                      orderId  |-> caller[t].orderId]])
  /\ caller' = [caller EXCEPT ![t] = Idle]
  /\ UNCHANGED <<executedOrders, engineNextId, orderReturns, engineIoVars,
                 publisherVars>>

\* ----------------------------------------------------------- _onOrderReturn

\* The order-return events the transport may deliver.
OrderReturnEvents ==
  { [orderRefId |-> 1, notifySeq |-> 1, orderStatus |-> "PARTIALLY_FILLED",
     volumeTraded |-> 1, volumeTotal |-> 2, seqNo |-> 3],
    [orderRefId |-> 1, notifySeq |-> 2, orderStatus |-> "FILLED",
     volumeTraded |-> 2, volumeTotal |-> 2, seqNo |-> 5],
    [orderRefId |-> 2, notifySeq |-> 1, orderStatus |-> "CANCELLED",
     volumeTraded |-> 0, volumeTotal |-> 2, seqNo |-> 4] }

\* _onOrderReturn has a docstring and no statement: the event changes
\* nothing in the engine.
onOrderReturn(e) ==
  /\ Len(orderReturns) < MaxReturns
  /\ orderReturns' = Append(orderReturns, e)
  /\ UNCHANGED <<executedOrders, engineNextId, caller, submitted, returned,
                 engineIoVars, publisherVars>>

\* -------------------------------------------------------------- queryStatus

\* An order id no placeOrder call has returned.
UnknownOrderId == [instId |-> SecA, exchange |-> <<"Z">>, orderId |-> 99]

\* The order ids placeOrder has returned.
KnownOrderIds ==
  {returned[i].orderId : i \in {k \in 1..Len(returned) : ~returned[k].raised}}

\* queryStatus has a docstring and no statement: it returns None for every
\* order id and raises nothing.
queryStatus(orderId) ==
  /\ engineCall' = [op |-> "queryStatus", orderId |-> orderId,
                    raised |-> FALSE, ret |-> [none |-> TRUE]]
  /\ UNCHANGED <<executedOrders, engineNextId, caller, submitted, returned,
                 orderReturns, callbacks, publisherVars>>

\* ------------------------------------------------------------- setCallbacks

\* The callbacks named in a setCallbacks call; the others default to None.
CallbackChoices ==
  { {}, {"onTradeReturn"}, {"onOrderSubmitted", "onOrderReturn"},
    CallbackNames }

\* setCallbacks assigns all five attributes.
setCallbacks(given) ==
  /\ callbacks' = [c \in CallbackNames |-> c \in given]
  /\ engineCall' = [op |-> "setCallbacks"]
  /\ UNCHANGED <<executedOrders, engineNextId, caller, submitted, returned,
                 orderReturns, publisherVars>>

\* -------------------------------------------------------- _onOrderSubmitted

\* The ( orderId, requestId ) pairs the transport may report.
SubmittedEvents == {<<1, 1>>, <<2, 2>>, <<1, 2>>}

\* _onOrderSubmitted prints its arguments: it stores nothing and calls no
\* user callback.
onOrderSubmitted(orderId, requestId) ==
  /\ engineCall' = [op |-> "_onOrderSubmitted", orderId |-> orderId,
                    requestId |-> requestId, forwarded |-> <<>>]
  /\ UNCHANGED <<executedOrders, engineNextId, caller, submitted, returned,
                 orderReturns, callbacks, publisherVars>>

\* ----------------------------------------------------------- _onTradeReturn

\* The trade events the transport may deliver.
TradeEvents ==
  { [orderRefId |-> 1, orderSysId |-> 11, tradeId |-> 21, price |-> 200,
     volume |-> 1, tradeDate |-> "20190101", tradeTime |-> "09:00:00",
     orderLocalId |-> 31, seqNo |-> 3],
    [orderRefId |-> 2, orderSysId |-> 12, tradeId |-> 22, price |-> 50,
     volume |-> 2, tradeDate |-> "20190101", tradeTime |-> "09:00:01",
     orderLocalId |-> 32, seqNo |-> 4] }

\* TradeForward guarded by the order-return callback, not the trade callback.
TradeForwardWrongGuard(ev) == IF callbacks["onOrderReturn"] THEN <<ev>> ELSE <<>>

\* The calls _onTradeReturn makes on the user's trade callback, each with its
\* arguments: one when self.onTradeReturn is not None, none otherwise.
TradeForward(ev) == IF callbacks["onTradeReturn"] THEN <<ev>> ELSE <<>>

onTradeReturn(ev) ==
  /\ engineCall' = [op |-> "_onTradeReturn", args |-> ev,
                    forwarded |-> TradeForward(ev)]
  /\ UNCHANGED <<executedOrders, engineNextId, caller, submitted, returned,
                 orderReturns, callbacks, publisherVars>>

\* ------------------------------------------------------------------- Next

\* The publisher and its receive thread.
Next ==
  \/ \E s \in Subscribers \cup {NoneSub} : addSubscriber(s)
  \/ \E id \in 1..MaxSubId : removeSubscriber(id)
  \/ \E keys \in SUBSET Topics : notifyAll(keys)
  \/ connect
  \/ startReceiver
  \/ \E raw \in RawMessages : receiveDatafeed(raw)

Spec == Init /\ [][Next]_vars

\* The execution engine with placeOrder called from several threads at once.
NextExec ==
  \/ \E t \in Callers, order \in Orders : placeOrderRead(t, order)
  \/ \E t \in Callers : placeOrderLoad(t)
  \/ \E t \in Callers : placeOrderStore(t)
  \/ \E t \in Callers : placeOrderSubmit(t)

SpecExec == Init /\ [][NextExec]_vars

\* No caller is inside placeOrder.
AllIdle == \A t \in Callers : caller[t].pc = "idle"

\* The execution engine with placeOrder calls made one after another (a call
\* begins only when no other call is under way) and the transport's
\* callbacks.
NextExecSeq ==
  \/ \E t \in Callers, order \in Orders : AllIdle /\ placeOrderRead(t, order)
  \/ \E t \in Callers : placeOrderLoad(t)
  \/ \E t \in Callers : placeOrderStore(t)
  \/ \E t \in Callers : placeOrderSubmit(t)
  \/ \E e \in OrderReturnEvents : onOrderReturn(e)

SpecExecSeq == Init /\ [][NextExecSeq]_vars

\* The execution engine with placeOrder calls made one after another, status
\* queries, callback registration and the transport's submit and trade
\* events.
NextEngine ==
  \/ \E t \in Callers, order \in Orders : AllIdle /\ placeOrderRead(t, order)
  \/ \E t \in Callers : placeOrderLoad(t)
  \/ \E t \in Callers : placeOrderStore(t)
  \/ \E t \in Callers : placeOrderSubmit(t)
  \/ \E q \in KnownOrderIds \cup {UnknownOrderId} : queryStatus(q)
  \/ \E given \in CallbackChoices : setCallbacks(given)
  \/ \E ev \in SubmittedEvents : onOrderSubmitted(ev[1], ev[2])
  \/ \E ev \in TradeEvents : onTradeReturn(ev)

SpecEngine == Init /\ [][NextEngine]_vars

\* addSubscriber and removeSubscriber on one thread, notifyAll on another,
\* interleaved statement by statement: the publisher holds no lock.
NextThreads ==
  \/ \E s \in Subscribers : addEnter(s)
  \/ \E t \in Topics : addTopic(t)
  \/ addReturn
  \/ \E id \in 1..MaxSubId : removeEnter(id)
  \/ \E t \in Topics : removeTopic(t)
  \/ removeReturn
  \/ \E keys \in SUBSET Topics : notifyEnter(keys)
  \/ \E k \in Topics : notifyCollect(k)
  \/ \E s \in Subscribers : notifyDeliver(s)
  \/ notifyReturn

SpecThreads == Init /\ [][NextThreads]_vars

\* The receive thread statement by statement, with registrations from the
\* main thread and the socket closed from outside.
NextLoop ==
  \/ \E s \in Subscribers : addSubscriber(s)
  \/ connect
  \/ startReceiver
  \/ closeTransport
  \/ \E raw \in RawMessages \cup {RawTerminal} : receiveStep(raw)
  \/ \E k \in CollectKeys : notifyCollect(k)
  \/ \E s \in Subscribers : notifyDeliver(s)
  \/ notifyReturn

\* A started thread keeps running: each of its steps is taken if it stays
\* enabled.  recv() blocks while the socket is open and nothing arrives, so
\* only the receive of the terminal message is fair.
LoopFairness ==
  /\ WF_vars(receiveStep(RawTerminal))
  /\ WF_vars(\E k \in CollectKeys : notifyCollect(k))
  /\ WF_vars(\E s \in Subscribers : notifyDeliver(s))
  /\ WF_vars(notifyReturn)

SpecLoop == Init /\ [][NextLoop]_vars /\ LoopFairness

\* convertToCtpOrder applied to an order drawn from ConvertInputs.
InitConvert ==
  /\ InitObjects
  /\ \E order \in ConvertInputs : engineCall = [op |-> "argument", order |-> order]

NextConvert == convert

SpecConvert == InitConvert /\ [][NextConvert]_vars

\* ------------------------------------------------------------------ claims

\* Whether subscriber object s is registered under some id.
Registered(s) == \E id \in DOMAIN subscribers : subscribers[id] = s

\* C1: after notifyAll( batch ), every registered subscriber whose topic set
\* meets the keys of the batch has had onData called exactly once, and every
\* subscriber whose topic set is disjoint from the keys has had it called
\* zero times.
C1_NotifyAllReachesEveryInterested ==
  lastCall.op = "notifyAll" =>
    \A s \in Subscribers :
      /\ (Registered(s) /\ getSubscribedTopics(s) \cap lastCall.keys # {})
           => lastCall.calls[s] = 1
      /\ (getSubscribedTopics(s) \cap lastCall.keys = {})
           => lastCall.calls[s] = 0

\* C2: a successful addSubscriber( s ) leaves s in the lookup of every topic
\* of s, and adds s to the lookup of no topic outside its topic set.
C2_AddIndexesExactlyTheTopics ==
  [][(lastCall'.op = "addSubscriber" /\ lastCall'.ret = nextId
        /\ nextId' = nextId + 1)
      => LET s == lastCall'.sub
         IN  /\ \A t \in getSubscribedTopics(s) : s \in subscribersFor(t)'
             /\ \A t \in Topics \ getSubscribedTopics(s) :
                  s \in subscribersFor(t)' => s \in subscribersFor(t)]_vars

\* C2 witness: sC, with two topics, has just been added while another topic
\* already had a subscriber of its own.
C2_Witness ==
  /\ lastCall.op = "addSubscriber"
  /\ lastCall.ret # NoneId
  /\ lastCall.sub = "sC"
  /\ subscribersFor(SecB) = {"sB"}
  /\ "sC" \in subscribersFor(SecA) \cap subscribersFor(SecB2)

\* C3: a successful removeSubscriber( id ) leaves id out of the subscriber
\* map, leaves the removed subscriber out of the lookup of every topic of its
\* topic set, and returns the removed subscriber.
C3_RemoveClearsIndex ==
  [][(lastCall'.op = "removeSubscriber" /\ ~lastCall'.raised
        /\ lastCall'.id \in DOMAIN subscribers)
      => LET id == lastCall'.id
             s  == subscribers[id]
         IN  /\ id \notin DOMAIN subscribers'
             /\ \A t \in getSubscribedTopics(s) : s \notin subscribersFor(t)'
             /\ lastCall'.ret = s]_vars

\* C3 witness: sC, indexed under two topics, has just been removed.
C3_Witness ==
  /\ lastCall.op = "removeSubscriber"
  /\ ~lastCall.raised
  /\ lastCall.ret = "sC"
  /\ lastCall.id \notin DOMAIN subscribers
  /\ {SecA, SecB2} \subseteq DOMAIN topicsToSubscribers

\* C4: for every id in the subscriber map and every topic of that
\* subscriber, the reverse-index set of the topic contains the subscriber.
C4_RegistryConsistent ==
  \A id \in DOMAIN subscribers :
    \A t \in getSubscribedTopics(subscribers[id]) :
      subscribers[id] \in subscribersFor(t)

\* C5: a raw message that does not split into exactly three fields is
\* dropped without dispatch and leaves the receive loop LISTENING.
C5_MalformedTickIsDropped ==
  (lastCall.op = "receive" /\ UnpackRaises(lastCall.raw)) =>
    /\ receiver = "LISTENING"
    /\ \A s \in Subscribers : lastCall.calls[s] = 0

\* The placeOrder calls that returned an order id, in the order they ended.
Succeeded(r) == ~r.raised

ReturnedIds == SelectSeq(returned, Succeeded)

\* C6: the correlation ids of the order ids placeOrder has returned are
\* pairwise distinct, however the callers' steps interleave.
C6_ConcurrentIdsDistinct ==
  \A i, j \in 1..Len(ReturnedIds) :
    i # j => ReturnedIds[i].orderId.orderId # ReturnedIds[j].orderId.orderId

\* C7: with placeOrder calls made one after another, each returned
\* correlation id is greater than every earlier one and equals the id that
\* was handed to the transport with the native order of the same call.
C7_SequentialIdsIncreaseAndMatchTransport ==
  /\ \A i, j \in 1..Len(ReturnedIds) :
       i < j => ReturnedIds[i].orderId.orderId < ReturnedIds[j].orderId.orderId
  /\ Len(submitted) = Len(ReturnedIds)
  /\ \A k \in 1..Len(ReturnedIds) :
       submitted[k].requestId = ReturnedIds[k].orderId.orderId

\* C7 witness: three calls have ended, the second with an exception, and the
\* two that succeeded were handed ids 1 and 3.
C7_Witness ==
  /\ Len(returned) = 3
  /\ returned[2].raised
  /\ Len(ReturnedIds) = 2
  /\ ReturnedIds[1].orderId.orderId = 1
  /\ ReturnedIds[2].orderId.orderId = 3
  /\ submitted[2].requestId = 3

\* The correlation ids handed to the transport.
SubmittedIds == {submitted[k].requestId : k \in 1..Len(submitted)}

\* The order-return events delivered so far for order ref.
Delivered(ref) ==
  {orderReturns[i] : i \in {k \in 1..Len(orderReturns) :
                              orderReturns[k].orderRefId = ref}}

\* Whether the engine's record of order ref shows the update e.
Tracks(orders, ref, e) ==
  /\ ref \in DOMAIN orders
  /\ orders[ref].status = e.orderStatus
  /\ orders[ref].volumeTraded = e.volumeTraded

\* C8: whatever the order in which the order-return events of a submitted
\* order arrive, its tracked status and cumulative fill are those of the
\* event with the highest seqNo, as they are when the events are applied in
\* increasing seqNo order.
C8_FinalStateIsHighestSeqNo ==
  \A ref \in SubmittedIds :
    Delivered(ref) # {} =>
      LET latest == CHOOSE e \in Delivered(ref) :
                      \A f \in Delivered(ref) : f.seqNo <= e.seqNo
      IN  Tracks(executedOrders, ref, latest)

\* C9: the first delivery of an order-return event of a submitted order
\* updates the tracked status and cumulative fill, and a second delivery of
\* the same event leaves the tracked state unchanged.
C9_DuplicateAppliesOnce ==
  [][Len(orderReturns') = Len(orderReturns) + 1 =>
       LET e   == orderReturns'[Len(orderReturns')]
           ref == e.orderRefId
       IN  IF e \in Delivered(ref)
           THEN executedOrders' = executedOrders
           ELSE (ref \in SubmittedIds
                 /\ \A f \in Delivered(ref) : f.seqNo < e.seqNo)
                  => Tracks(executedOrders', ref, e)]_vars

\* C11: queryStatus returns a status record for an order id placeOrder has
\* returned, and fails (returns nothing) for an order id never submitted.
C11_QueryStatusKnownOrFails ==
  engineCall.op = "queryStatus" =>
    IF engineCall.orderId \in KnownOrderIds
    THEN ~engineCall.raised /\ ~engineCall.ret.none
    ELSE engineCall.raised

\* C12: every order id placeOrder has returned has a record in executedOrders
\* in state SUBMITTED as long as no callback for that order has been
\* processed.
C12_SubmittedRecordedAtPlacement ==
  \A q \in KnownOrderIds :
    Delivered(q.orderId) = {} =>
      /\ q.orderId \in DOMAIN executedOrders
      /\ executedOrders[q.orderId].status = "SUBMITTED"

C14_DispatchKeyIsExternalId ==
  (lastCall.op = "receive" /\ ~lastCall.raised) =>
    \A s \in Subscribers : \A e \in getSubscribedTopics(s) :
      (Registered(s) /\ getCtpInstId(e) = Split(lastCall.raw, ",")[1]) =>
        /\ lastCall.keys = {e}
        /\ lastCall.calls[s] = 1

\* C15: removeSubscriber( id ) with an id that is not in the subscriber map,
\* whether never assigned or already removed, raises, and leaves the
\* subscriber map, the reverse index and the next-id counter as they were.
C15_RemoveUnknownFailsWithoutEffect ==
  [][(lastCall'.op = "removeSubscriber" /\ lastCall'.id \notin DOMAIN subscribers)
      => /\ lastCall'.raised
         /\ UNCHANGED <<subscribers, topicsToSubscribers, nextId>>]_vars

\* C15 witness: the removal of an id issued earlier and already removed has
\* raised while another subscriber is still registered and indexed.
C15_Witness ==
  /\ lastCall.op = "removeSubscriber"
  /\ lastCall.raised
  /\ \E i \in 1..Len(issuedIds) : issuedIds[i] = lastCall.id
  /\ lastCall.id \notin DOMAIN subscribers
  /\ DOMAIN subscribers # {}
  /\ \E t \in DOMAIN topicsToSubscribers : topicsToSubscribers[t] # {}

C17_TradeReturnForwardedOnce ==
  [][(engineCall' # engineCall /\ engineCall'.op = "_onTradeReturn")
      => /\ callbacks["onTradeReturn"] => engineCall'.forwarded = <<engineCall'.args>>
         /\ ~callbacks["onTradeReturn"] => engineCall'.forwarded = <<>>
         /\ UNCHANGED <<executedOrders, engineNextId>>]_vars

\* C17 witness: with a trade callback registered and an order placed, a trade
\* event has been forwarded once with its own arguments.
C17_Witness ==
  /\ engineCall.op = "_onTradeReturn"
  /\ callbacks["onTradeReturn"]
  /\ ~callbacks["onOrderReturn"]
  /\ engineCall.forwarded = <<engineCall.args>>
  /\ engineNextId > 1

\* C18: an _onOrderSubmitted( orderId, requestId ) event leaves the mapping
\* from requestId to orderId in the engine's state and, when the user has
\* registered an onOrderSubmitted callback, calls it for the event.
C18_SubmittedRecordedAndForwarded ==
  engineCall.op = "_onOrderSubmitted" =>
    /\ engineCall.requestId \in DOMAIN executedOrders
    /\ callbacks["onOrderSubmitted"] => Len(engineCall.forwarded) = 1

\* C19: over any sequence of addSubscriber and removeSubscriber calls, each
\* identifier a successful addSubscriber returns is strictly greater than
\* every identifier returned before it, so none is issued twice.
C19_SubscriberIdsStrictlyIncrease ==
  \A i, j \in 1..Len(issuedIds) : i < j => issuedIds[i] < issuedIds[j]

\* C19 witness: a third identifier has been issued after the subscriber holding
\* the first one was removed.
C19_Witness ==
  /\ lastCall.op = "addSubscriber"
  /\ lastCall.ret = 3
  /\ Len(issuedIds) = 3
  /\ 1 \notin DOMAIN subscribers
  /\ 2 \in DOMAIN subscribers

\* The field filters of the registered subscribers.
RegisteredFilters ==
  {getSubscribedDataFields(subscribers[id]) : id \in DOMAIN subscribers}

\* C20 as stated: connect() aggregates to "all fields" when some registered
\* subscriber has an absent or an empty field filter, and to the union of the
\* filters otherwise.
C20_AbsentOrEmptyFilterMeansAll ==
  lastCall.op = "connect" =>
    IF \E f \in RegisteredFilters : f.none \/ f.val = {}
    THEN lastCall.fields.none
    ELSE /\ ~lastCall.fields.none
         /\ lastCall.fields.val = UNION {f.val : f \in RegisteredFilters}

\* C20: connect() aggregates to "all fields" exactly when some registered
\* subscriber has an absent (None) field filter, whatever the order of the
\* subscribers and whatever the other filters; otherwise to the union of the
\* filters, to which an empty filter adds nothing.
C20_AbsentFilterMeansAll ==
  lastCall.op = "connect" =>
    IF \E f \in RegisteredFilters : f.none
    THEN lastCall.fields.none
    ELSE /\ ~lastCall.fields.none
         /\ lastCall.fields.val = UNION {f.val : f \in RegisteredFilters}

\* C20 witness: connect() has aggregated to "all fields" with the subscriber
\* without a filter visited before one with a narrower filter.
C20_Witness ==
  /\ lastCall.op = "connect"
  /\ {1, 2} \subseteq DOMAIN subscribers
  /\ subscribers[1] = "sB"
  /\ subscribers[2] = "sA"
  /\ lastCall.fields.none

\* C21: with addSubscriber or removeSubscriber running on one thread while
\* notifyAll runs on another, a dispatch never reads a subscriber in the
\* index set of one of its keys and misses it in the index set of another key
\* of the subscriber's, and never reads from the index a subscriber that is
\* absent from the subscriber map.
C21_DispatchSeesWholeMutations ==
  dispatcher.pc \in {"deliver", "done"} =>
    /\ \A s \in Subscribers :
         \A t1, t2 \in dispatcher.keys \cap getSubscribedTopics(s) :
           (s \in dispatcher.seen[t1]) <=> (s \in dispatcher.seen[t2])
    /\ dispatcher.stale = {}

C23_RejectedOrderConsumesId ==
  /\ [][\A t \in Callers :
          (caller[t].pc = "submit" /\ caller'[t].pc = "idle"
             /\ ConvertRaises(caller[t].order))
          => /\ submitted' = submitted
             /\ Len(returned') = Len(returned) + 1
             /\ returned'[Len(returned')].raised
             /\ engineNextId' = caller[t].orderId + 1]_vars
  /\ [](AllIdle => engineNextId = Len(returned) + 1)
  /\ [](\A k \in 1..Len(returned) :
          IF returned[k].raised
          THEN k \notin SubmittedIds
          ELSE returned[k].orderId.orderId = k /\ k \in SubmittedIds)
  /\ [](\A i, j \in 1..Len(submitted) :
          i # j => submitted[i].requestId # submitted[j].requestId)

\* C23 witness: the first call was rejected and the second went through with
\* correlation id 2, the only one the transport has seen.
C23_Witness ==
  /\ AllIdle
  /\ Len(returned) = 2
  /\ returned[1].raised
  /\ ~returned[2].raised
  /\ SubmittedIds = {2}
  /\ engineNextId = 3

\* C24: after any sequence of addSubscriber and removeSubscriber calls, every
\* subscriber found in a set of the reverse index is registered under at
\* least one id of the subscriber map, and notifyAll calls onData on no
\* subscriber that is registered under no id.
C24_NoStaleIndexEntries ==
  /\ \A t \in DOMAIN topicsToSubscribers :
       \A s \in topicsToSubscribers[t] : Registered(s)
  /\ lastCall.op = "notifyAll" =>
       \A s \in Subscribers : lastCall.calls[s] > 0 => Registered(s)

\* C24 witness: sC was registered under id 1 and removed, leaving its topics
\* in the index with empty sets; sA is registered under id 2, and notifyAll
\* on all topics has just called sA and not sC.
C24_Witness ==
  /\ lastCall.op = "notifyAll"
  /\ lastCall.keys = Topics
  /\ issuedIds = <<1, 2>>
  /\ DOMAIN subscribers = {2}
  /\ subscribers[2] = "sA"
  /\ SecB2 \in DOMAIN topicsToSubscribers
  /\ lastCall.calls["sA"] = 1
  /\ lastCall.calls["sC"] = 0

=============================================================================
